---- MODULE Spec2Model ----
(***************************************************************************)
(* Argus firmware (argus.ino): the poll loop, the SPI transfer-complete    *)
(* interrupt handler, the command latch, the telemetry snapshot and the    *)
(* motor outputs.                                                          *)
(*                                                                         *)
(* The interrupt handler preempts loop() between any two of its steps and  *)
(* runs to completion; loop() makes no step while the handler is active.   *)
(* Inside the handler the only other party that moves is the SPI hardware, *)
(* clocked by the controller.  A byte written to SPDR is shifted out by    *)
(* the transfer that follows the write (lines 102-105 wait for exactly     *)
(* that transfer), and the handler is entered when a transfer is complete. *)
(***************************************************************************)
EXTENDS Integers, Sequences, FiniteSets, TLC

\* ------------------------------------------------------------- constants
CMD_STOP == 0
CMD_FORWARD == 1
CMD_REVERSE == 2
CMD_TURN_LEFT == 3
CMD_TURN_RIGHT == 4
CMD_GET_SENSOR_DATA == 16
ACK == 255
LOW == 0
HIGH == 1
BATT_EMPTY == 600
BATT_FULL == 850
DUTY_FORWARD == 200
DUTY_REVERSE == 150
DUTY_TURN == 180
\* analogRead() returns 0..1023; pulseIn() gives up after 25000 microseconds.
ADC_MAX == 1023
ECHO_TIMEOUT == 25000

\* ---------------------------------------------------------------- bounds
\* Bytes the controller sends: 0..MaxByte and the telemetry request.
MaxByte == 5
\* Cap of the iteration age kept for the latest received command byte.
MaxAge == 2
\* Cap of the count of apply steps that read one latched byte.
MaxApplied == 2

CmdBytes == 0..MaxByte
Bytes == CmdBytes \cup {CMD_GET_SENSOR_DATA}
ValidCmds == {CMD_STOP, CMD_FORWARD, CMD_REVERSE, CMD_TURN_LEFT, CMD_TURN_RIGHT}
\* Echo durations (microseconds) returned by pulseIn; 0 is the timeout.
Durations == {0, 17000}
\* Raw analogRead values of the battery divider.
RawLevels == {500, 900}
\* SPDR is not written before the first transfer.
InitSPDR == {0, 255}
\* Duty values and pin levels of an arbitrary motor output state.
Duties == {0, DUTY_REVERSE, DUTY_TURN, DUTY_FORWARD, 255}
Levels == {LOW, HIGH}
None == -1

VARIABLES
  observe,      \* which history this run records: "latch", "bus" or "none"
  lpc,          \* position of loop()
  isr,          \* position of ISR(SPI_STC_vect): "idle", "wait1", "wait2"
  command,      \* volatile byte command
  cmdSrc,       \* who wrote command last: "init", "isr", "loop"
  distance,     \* sensorData.distance (signed 16 bit)
  battery_level,\* sensorData.battery_level
  rDist,        \* return value of readUltrasonic() while it is being stored
  motor,        \* the six motor driver outputs
  SPDR,         \* SPI data register, transmit side (byte staged for the next transfer)
  rxLog,        \* the last two command bytes received, with what became of them
  rxAge,        \* iteration starts since the latest command byte was received
  readSinceRx,  \* loop() read the latch since the latest command byte was received
  timesApplied, \* apply steps that read the byte the handler latched last
  xchg,         \* the latest transfer that entered the handler
  curReq,       \* snapshot when the latest telemetry request was received
  got,          \* bytes shifted out to the controller for the latest reply
  gotReq,       \* snapshot at the request that `got` answers
  lastApplied,  \* the code passed to executeMotorCommand last
  prevApplied,  \* the code passed before that
  durIn,        \* the echo duration handed to the distance conversion
  rawIn,        \* the raw reading handed to the battery conversion
  trace,        \* what loop() has done so far in the present iteration
  eaten,        \* bytes clocked in while the handler waited, since it was entered last
  age,          \* iterations since each stored byte of the snapshot was sampled
  reqAge,       \* `age` when the latest telemetry request was received, and whether
                \* the distance stored then was a value that no sample produced
  oldDist       \* sensorData.distance as the last completed store left it

vars == <<observe, lpc, isr, command, cmdSrc, distance, battery_level, rDist, motor,
          SPDR, rxLog, rxAge, readSinceRx, timesApplied, xchg, curReq,
          got, gotReq, lastApplied, prevApplied, durIn, rawIn, trace, eaten, age, reqAge, oldDist>>

\* ------------------------------------------------------- pure functions
Min(a, b) == IF a < b THEN a ELSE b

\* C integer division truncates toward zero.
TruncDiv(a, b) == IF a >= 0 THEN a \div b ELSE -((-a) \div b)

\* (short) conversion: wrap to 16 bits, two's complement.
ToShort(x) == LET u == x % 65536 IN IF u >= 32768 THEN u - 65536 ELSE u

\* (sensorData.distance >> 8) & 0xFF and sensorData.distance & 0xFF
HighByte(d) == (d \div 256) % 256
LowByte(d) == d % 256

\* The controller's reconstruction: big-endian signed 16 bit.
FromBytes(hi, lo) == ToShort(256 * hi + lo)

\* The conversion without the halving for the round trip.
readUltrasonicOneWay(duration) == ToShort(TruncDiv(duration * 343, 10000))

\* (short)(duration * 0.0343 / 2.0)
readUltrasonic(duration) == ToShort(TruncDiv(duration * 343, 20000))

\* Arduino map() and constrain()
map(x, inMin, inMax, outMin, outMax) ==
  TruncDiv((x - inMin) * (outMax - outMin), inMax - inMin) + outMin
constrain(x, lo, hi) == IF x < lo THEN lo ELSE IF x > hi THEN hi ELSE x
\* readBattery without the constrain of line 143.
readBatteryNoClamp(raw) == map(raw, BATT_EMPTY, BATT_FULL, 0, 100) % 256

readBattery(raw) == constrain(map(raw, BATT_EMPTY, BATT_FULL, 0, 100), 0, 100) % 256

\* ------------------------------------------------------- motor profiles
Profile(a, b, c, d, ea, eb) ==
  [in1 |-> a, in2 |-> b, in3 |-> c, in4 |-> d, ena |-> ea, enb |-> eb]
goForward == Profile(HIGH, LOW, HIGH, LOW, DUTY_FORWARD, DUTY_FORWARD)
goReverse == Profile(LOW, HIGH, LOW, HIGH, DUTY_REVERSE, DUTY_REVERSE)
\* turnLeft with the direction pins of the two sides exchanged.
turnLeftMirrored == Profile(HIGH, LOW, LOW, HIGH, DUTY_TURN, DUTY_TURN)
turnLeft == Profile(LOW, HIGH, HIGH, LOW, DUTY_TURN, DUTY_TURN)
turnRight == Profile(HIGH, LOW, LOW, HIGH, DUTY_TURN, DUTY_TURN)
stopMotors == Profile(LOW, LOW, LOW, LOW, 0, 0)

\* executeMotorCommand with a default case that stops the motors.
executeMotorCommandDefaultStop(cmd, m) ==
  CASE cmd = CMD_FORWARD -> goForward
    [] cmd = CMD_REVERSE -> goReverse
    [] cmd = CMD_TURN_LEFT -> turnLeft
    [] cmd = CMD_TURN_RIGHT -> turnRight
    [] OTHER -> stopMotors

\* executeMotorCommand without its CMD_STOP case.
executeMotorCommandNoStop(cmd, m) ==
  CASE cmd = CMD_FORWARD -> goForward
    [] cmd = CMD_REVERSE -> goReverse
    [] cmd = CMD_TURN_LEFT -> turnLeft
    [] cmd = CMD_TURN_RIGHT -> turnRight
    [] OTHER -> m

\* The outputs after executeMotorCommand(cmd) from the outputs m.
executeMotorCommand(cmd, m) ==
  CASE cmd = CMD_FORWARD -> goForward
    [] cmd = CMD_REVERSE -> goReverse
    [] cmd = CMD_TURN_LEFT -> turnLeft
    [] cmd = CMD_TURN_RIGHT -> turnRight
    [] cmd = CMD_STOP -> stopMotors
    [] OTHER -> m

\* ------------------------------------------------------------- history
\* A history variable changes only in the run that records it.
LatchObs(new, old) == IF observe = "latch" THEN new ELSE old
BusObs(new, old) == IF observe = "bus" THEN new ELSE old
ReplyObs(new, old) == IF observe = "reply" THEN new ELSE old

\* The snapshot as setup() leaves it: all of it from the same moment.
Fresh == [hi |-> 0, lo |-> 0, bat |-> 0]
\* An iteration of loop() ends: what is stored is one iteration older.
Older(a) == [f \in DOMAIN a |-> Min(a[f] + 1, MaxAge)]
\* Between the two byte stores of line 82 the stored distance may be neither
\* the previous sample nor the new one.
Torn == lpc = "storeDist2" /\ distance \notin {oldDist, rDist}

\* A received command byte enters the log; only the last two are kept.
LogRx(b) ==
  LET e == [b |-> b, passed |-> FALSE,
            sameIter |-> (Len(rxLog) > 0 /\ rxAge = 0),
            afterRead |-> (Len(rxLog) > 0 /\ readSinceRx)]
  IN IF Len(rxLog) = 0 THEN <<e>>
     ELSE <<[rxLog[Len(rxLog)] EXCEPT !.sameIter = FALSE, !.afterRead = FALSE], e>>

\* The Executor was handed the value c: the logged byte it came from is marked.
LogApply(c) ==
  LET n == Len(rxLog) IN
  IF n > 0 /\ rxLog[n].b = c THEN [rxLog EXCEPT ![n].passed = TRUE]
  ELSE IF n = 2 /\ c # 0 /\ rxLog[1].b = c THEN [rxLog EXCEPT ![1].passed = TRUE]
  ELSE rxLog

\* A transfer completed outside a reply: the staged byte went out.
Shifted == IF Len(got) = 2 THEN Append(got, SPDR) ELSE got

\* ----------------------------------------------------------------- Init
Boot ==
  /\ lpc = "readUltrasonic"
  /\ isr = "idle"
  /\ command = 0
  /\ cmdSrc = "init"
  /\ distance = 0
  /\ battery_level = 0
  /\ rDist = 0
  /\ motor = stopMotors
  /\ SPDR \in InitSPDR
  /\ rxLog = <<>>
  /\ rxAge = 0
  /\ readSinceRx = FALSE
  /\ timesApplied = 0
  /\ xchg = [req |-> "none", resp |-> 0, prev |-> "none"]
  /\ curReq = [dist |-> 0, bat |-> 0]
  /\ got = <<>>
  /\ gotReq = [dist |-> 0, bat |-> 0]
  /\ lastApplied = None
  /\ prevApplied = None
  /\ trace = <<>>
  /\ eaten = <<>>
  /\ age = Fresh
  /\ reqAge = [hi |-> 0, lo |-> 0, bat |-> 0, torn |-> FALSE]
  /\ oldDist = 0

\* Outside the sampler's own specification the two inputs are not recorded.
NoInputs == durIn = 0 /\ rawIn = 0

Init == observe = "latch" /\ Boot /\ NoInputs
BusInit == observe = "bus" /\ Boot /\ NoInputs
PlainInit == observe = "none" /\ Boot /\ NoInputs
ReplyInit == observe = "reply" /\ Boot /\ NoInputs

\* ------------------------------------------------------------ loop()
hist == <<rxLog, rxAge, readSinceRx, timesApplied>>
bus == <<SPDR, xchg, curReq, got, gotReq, eaten, reqAge>>
fixed == <<observe, lastApplied, prevApplied, durIn, rawIn>>
exec == <<fixed, trace, age, oldDist>>

\* loop() with the reset of the latch placed before the apply step.
NextPcResetFirst(pc) ==
  CASE pc = "readUltrasonic" -> "storeDist1"
    [] pc = "storeDist1" -> "storeDist2"
    [] pc = "storeDist2" -> "readBattery"
    [] pc = "readBattery" -> "reset"
    [] pc = "reset" -> "execute"
    [] pc = "execute" -> "delay"
    [] pc = "delay" -> "readUltrasonic"

\* lines 80-92: the order of the statements of loop().
NextPc(pc) ==
  CASE pc = "readUltrasonic" -> "storeDist1"
    [] pc = "storeDist1" -> "storeDist2"
    [] pc = "storeDist2" -> "readBattery"
    [] pc = "readBattery" -> "execute"
    [] pc = "execute" -> "reset"
    [] pc = "reset" -> "delay"
    [] pc = "delay" -> "readUltrasonic"

\* line 82, the call: readUltrasonic() returns.
ReadUltrasonic(duration) ==
  /\ isr = "idle" /\ lpc = "readUltrasonic"
  /\ rDist' = readUltrasonic(duration)
  /\ lpc' = NextPc(lpc)
  /\ UNCHANGED <<isr, command, cmdSrc, distance, battery_level, motor>>
  /\ UNCHANGED <<hist, bus, fixed, trace, age>>
  /\ UNCHANGED oldDist

\* line 82, the store: a 16-bit store is two byte stores on this 8-bit core.
StoreDist1(hiFirst) ==
  /\ isr = "idle" /\ lpc = "storeDist1"
  /\ distance' = IF hiFirst THEN FromBytes(HighByte(rDist), LowByte(distance))
                 ELSE FromBytes(HighByte(distance), LowByte(rDist))
  /\ lpc' = NextPc(lpc)
  /\ UNCHANGED <<isr, command, cmdSrc, battery_level, rDist, motor>>
  /\ UNCHANGED <<hist, bus, fixed, trace>>
  /\ age' = ReplyObs(IF hiFirst THEN [age EXCEPT !.hi = 0] ELSE [age EXCEPT !.lo = 0], age)
  /\ UNCHANGED oldDist

StoreDist2 ==
  /\ isr = "idle" /\ lpc = "storeDist2"
  /\ distance' = rDist
  /\ rDist' = 0
  /\ lpc' = NextPc(lpc)
  /\ UNCHANGED <<isr, command, cmdSrc, battery_level, motor>>
  /\ UNCHANGED <<hist, bus, fixed>>
  /\ trace' = Append(trace, "distance")
  /\ age' = ReplyObs([age EXCEPT !.hi = 0, !.lo = 0], age)
  /\ oldDist' = ReplyObs(distance', oldDist)

\* line 83
ReadBattery(raw) ==
  /\ isr = "idle" /\ lpc = "readBattery"
  /\ battery_level' = readBattery(raw)
  /\ lpc' = NextPc(lpc)
  /\ UNCHANGED <<isr, command, cmdSrc, distance, rDist, motor>>
  /\ UNCHANGED <<hist, bus, fixed>>
  /\ trace' = Append(trace, "battery")
  /\ age' = ReplyObs([age EXCEPT !.bat = 0], age)
  /\ UNCHANGED oldDist

\* line 86: the latch is read once and handed to the Executor.
Execute ==
  /\ isr = "idle" /\ lpc = "execute"
  /\ motor' = executeMotorCommand(command, motor)
  /\ lpc' = NextPc(lpc)
  /\ rxLog' = LatchObs(LogApply(command), rxLog)
  /\ readSinceRx' = LatchObs(TRUE, readSinceRx)
  /\ timesApplied' = LatchObs(IF cmdSrc = "isr" THEN Min(timesApplied + 1, MaxApplied) ELSE timesApplied, timesApplied)
  /\ UNCHANGED <<isr, command, cmdSrc, distance, battery_level, rDist>>
  /\ UNCHANGED <<rxAge, bus, fixed>>
  /\ trace' = Append(trace, "apply")
  /\ UNCHANGED age
  /\ UNCHANGED oldDist

\* A reset to a value that is no command code.
ResetToIdleCode ==
  /\ isr = "idle" /\ lpc = "reset"
  /\ command' = ACK
  /\ cmdSrc' = LatchObs("loop", cmdSrc)
  /\ lpc' = NextPc(lpc)
  /\ trace' = Append(trace, "reset")
  /\ UNCHANGED <<isr, distance, battery_level, rDist, motor>>
  /\ UNCHANGED <<hist, bus, fixed>>
  /\ UNCHANGED age
  /\ UNCHANGED oldDist

\* loop() without line 89.
ResetMissing ==
  /\ isr = "idle" /\ lpc = "reset"
  /\ lpc' = NextPc(lpc)
  /\ UNCHANGED <<isr, command, cmdSrc, distance, battery_level, rDist, motor>>
  /\ UNCHANGED <<hist, bus, exec>>

\* line 89
Reset ==
  /\ isr = "idle" /\ lpc = "reset"
  /\ command' = 0
  /\ cmdSrc' = LatchObs("loop", cmdSrc)
  /\ lpc' = NextPc(lpc)
  /\ UNCHANGED <<isr, distance, battery_level, rDist, motor>>
  /\ UNCHANGED <<hist, bus, fixed>>
  /\ trace' = Append(trace, "reset")
  /\ UNCHANGED age
  /\ UNCHANGED oldDist

\* line 91: the delay ends and loop() is entered again.
Delay ==
  /\ isr = "idle" /\ lpc = "delay"
  /\ lpc' = NextPc(lpc)
  /\ rxAge' = LatchObs(IF Len(rxLog) > 0 THEN Min(rxAge + 1, MaxAge) ELSE rxAge, rxAge)
  /\ UNCHANGED <<isr, command, cmdSrc, distance, battery_level, rDist, motor>>
  /\ UNCHANGED <<rxLog, readSinceRx, timesApplied, bus, fixed>>
  /\ trace' = <<>>
  /\ age' = ReplyObs(Older(age), age)
  /\ UNCHANGED oldDist

\* ------------------------------------------------- ISR(SPI_STC_vect)
\* The effects of a command byte on the histories.
CommandByteHist(b) ==
  /\ cmdSrc' = LatchObs("isr", cmdSrc)
  /\ xchg' = BusObs([req |-> "cmd", resp |-> SPDR, prev |-> xchg.req], xchg)
  /\ got' = BusObs(Shifted, got)
  /\ rxLog' = LatchObs(LogRx(b), rxLog)
  /\ rxAge' = LatchObs(0, rxAge)
  /\ readSinceRx' = LatchObs(FALSE, readSinceRx)
  /\ timesApplied' = LatchObs(0, timesApplied)
  /\ UNCHANGED <<lpc, isr, distance, battery_level, rDist, motor>>
  /\ UNCHANGED <<curReq, gotReq, reqAge, exec>>
  /\ eaten' = ReplyObs(<<>>, eaten)

\* A handler that drives the motors itself.
CommandByteExecutes(b) ==
  /\ isr = "idle" /\ b # CMD_GET_SENSOR_DATA
  /\ command' = b
  /\ SPDR' = ACK
  /\ motor' = executeMotorCommand(b, motor)
  /\ cmdSrc' = LatchObs("isr", cmdSrc)
  /\ xchg' = BusObs([req |-> "cmd", resp |-> SPDR, prev |-> xchg.req], xchg)
  /\ got' = BusObs(Shifted, got)
  /\ rxLog' = LatchObs(LogRx(b), rxLog)
  /\ rxAge' = LatchObs(0, rxAge)
  /\ readSinceRx' = LatchObs(FALSE, readSinceRx)
  /\ timesApplied' = LatchObs(0, timesApplied)
  /\ UNCHANGED <<lpc, isr, distance, battery_level, rDist>>
  /\ UNCHANGED <<curReq, gotReq, reqAge, exec>>
  /\ eaten' = ReplyObs(<<>>, eaten)

\* A handler that queues: an unconsumed command is not overwritten.
CommandByteKeepFirst(b) ==
  /\ isr = "idle" /\ b # CMD_GET_SENSOR_DATA
  /\ command' = IF command # 0 THEN command ELSE b
  /\ SPDR' = ACK
  /\ CommandByteHist(b)

\* A handler that latches only the five known codes.
CommandByteValidOnly(b) ==
  /\ isr = "idle" /\ b # CMD_GET_SENSOR_DATA
  /\ command' = IF b \in ValidCmds THEN b ELSE command
  /\ SPDR' = ACK
  /\ CommandByteHist(b)

\* A handler that forgets to stage the acknowledgment.
CommandByteNoAck(b) ==
  /\ isr = "idle" /\ b # CMD_GET_SENSOR_DATA
  /\ command' = b
  /\ SPDR' = SPDR
  /\ CommandByteHist(b)

\* lines 97, 108-112: a transfer completes with a byte other than 0x10.
CommandByte(b) ==
  /\ isr = "idle" /\ b # CMD_GET_SENSOR_DATA
  /\ command' = b
  /\ SPDR' = ACK
  /\ CommandByteHist(b)

\* A handler without the test of line 99 on the latch: 0x10 is latched too.
TelemetryRequestLatching ==
  /\ isr = "idle"
  /\ command' = CMD_GET_SENSOR_DATA
  /\ SPDR' = HighByte(distance)
  /\ isr' = "wait1"
  /\ xchg' = BusObs([req |-> "tel", resp |-> SPDR, prev |-> xchg.req], xchg)
  /\ got' = BusObs(Shifted, got)
  /\ curReq' = BusObs([dist |-> distance, bat |-> battery_level], curReq)
  /\ UNCHANGED <<lpc, cmdSrc, distance, battery_level, rDist, motor>>
  /\ UNCHANGED <<hist, gotReq, exec>>
  /\ eaten' = ReplyObs(<<>>, eaten)
  /\ reqAge' = ReplyObs([hi |-> age.hi, lo |-> age.lo, bat |-> age.bat, torn |-> Torn], reqAge)

\* A handler that sends the low byte first.
TelemetryRequestLowFirst ==
  /\ isr = "idle"
  /\ SPDR' = LowByte(distance)
  /\ isr' = "wait1"
  /\ xchg' = BusObs([req |-> "tel", resp |-> SPDR, prev |-> xchg.req], xchg)
  /\ got' = BusObs(Shifted, got)
  /\ curReq' = BusObs([dist |-> distance, bat |-> battery_level], curReq)
  /\ UNCHANGED <<lpc, command, cmdSrc, distance, battery_level, rDist, motor>>
  /\ UNCHANGED <<hist, gotReq, exec>>
  /\ eaten' = ReplyObs(<<>>, eaten)
  /\ reqAge' = ReplyObs([hi |-> age.hi, lo |-> age.lo, bat |-> age.bat, torn |-> Torn], reqAge)

\* lines 97-103: a transfer completes with 0x10; the high byte is staged.
TelemetryRequest ==
  /\ isr = "idle"
  /\ SPDR' = HighByte(distance)
  /\ isr' = "wait1"
  /\ xchg' = BusObs([req |-> "tel", resp |-> SPDR, prev |-> xchg.req], xchg)
  /\ got' = BusObs(Shifted, got)
  /\ curReq' = BusObs([dist |-> distance, bat |-> battery_level], curReq)
  /\ UNCHANGED <<lpc, command, cmdSrc, distance, battery_level, rDist, motor>>
  /\ UNCHANGED <<hist, gotReq, exec>>
  /\ eaten' = ReplyObs(<<>>, eaten)
  /\ reqAge' = ReplyObs([hi |-> age.hi, lo |-> age.lo, bat |-> age.bat, torn |-> Torn], reqAge)

\* A handler that reads the byte clocked in while it waited, as a command.
TransferDone1Interprets(b) ==
  /\ isr = "wait1"
  /\ got' = BusObs(<<SPDR>>, got)
  /\ gotReq' = BusObs(curReq, gotReq)
  /\ SPDR' = LowByte(distance)
  /\ isr' = "wait2"
  /\ command' = IF b # CMD_GET_SENSOR_DATA THEN b ELSE command
  /\ UNCHANGED <<lpc, cmdSrc, distance, battery_level, rDist, motor>>
  /\ UNCHANGED <<hist, xchg, curReq, reqAge, exec>>
  /\ eaten' = ReplyObs(Append(eaten, b), eaten)

\* lines 103-104: the next transfer completes; the low byte is staged.
TransferDone1(b) ==
  /\ isr = "wait1"
  /\ got' = BusObs(<<SPDR>>, got)
  /\ gotReq' = BusObs(curReq, gotReq)
  /\ SPDR' = LowByte(distance)
  /\ isr' = "wait2"
  /\ UNCHANGED <<lpc, command, cmdSrc, distance, battery_level, rDist, motor>>
  /\ UNCHANGED <<hist, xchg, curReq, reqAge, exec>>
  /\ eaten' = ReplyObs(Append(eaten, b), eaten)

\* lines 105-107: the next transfer completes; the battery byte is staged
\* and the handler returns.
TransferDone2(b) ==
  /\ isr = "wait2"
  /\ got' = BusObs(Append(got, SPDR), got)
  /\ SPDR' = battery_level
  /\ isr' = "idle"
  /\ UNCHANGED <<lpc, command, cmdSrc, distance, battery_level, rDist, motor>>
  /\ UNCHANGED <<hist, xchg, curReq, gotReq, reqAge, exec>>
  /\ eaten' = ReplyObs(Append(eaten, b), eaten)

\* ------------------------------------------------------ specification
LoopStep ==
  \/ \E duration \in Durations : ReadUltrasonic(duration)
  \/ \E hiFirst \in BOOLEAN : StoreDist1(hiFirst)
  \/ StoreDist2
  \/ \E raw \in RawLevels : ReadBattery(raw)
  \/ Execute
  \/ Reset
  \/ Delay

Next ==
  \/ LoopStep
  \/ \E b \in Bytes : CommandByte(b)
  \/ TelemetryRequest
  \/ \E b \in Bytes : TransferDone1(b)
  \/ \E b \in Bytes : TransferDone2(b)

Spec == Init /\ [][Next]_vars
BusSpec == BusInit /\ [][Next]_vars
ReplySpec == ReplyInit /\ [][Next]_vars

\* The processor always executes the next instruction of loop() when no
\* handler is active; the controller is under no obligation to clock the bus.
FairSpec == PlainInit /\ [][Next]_vars /\ WF_vars(LoopStep)

\* The Executor alone, from an arbitrary state of the six outputs.
ExecInit ==
  /\ observe = "exec"
  /\ lpc = "execute"
  /\ isr = "idle"
  /\ command = 0
  /\ cmdSrc = "init"
  /\ distance = 0
  /\ battery_level = 0
  /\ rDist = 0
  /\ motor \in [in1 : Levels, in2 : Levels, in3 : Levels, in4 : Levels,
                ena : Duties, enb : Duties]
  /\ SPDR = 0
  /\ rxLog = <<>>
  /\ rxAge = 0
  /\ readSinceRx = FALSE
  /\ timesApplied = 0
  /\ xchg = [req |-> "none", resp |-> 0, prev |-> "none"]
  /\ curReq = [dist |-> 0, bat |-> 0]
  /\ got = <<>>
  /\ gotReq = [dist |-> 0, bat |-> 0]
  /\ lastApplied = None
  /\ prevApplied = None
  /\ trace = <<>>
  /\ eaten = <<>>
  /\ age = Fresh
  /\ reqAge = [hi |-> 0, lo |-> 0, bat |-> 0, torn |-> FALSE]
  /\ oldDist = 0
  /\ NoInputs

\* lines 148-167: executeMotorCommand(cmd)
Apply(cmd) ==
  /\ motor' = executeMotorCommand(cmd, motor)
  /\ lastApplied' = cmd
  /\ prevApplied' = lastApplied
  /\ UNCHANGED <<observe, lpc, isr, command, cmdSrc, distance, battery_level, rDist>>
  /\ UNCHANGED <<durIn, rawIn, trace, age, oldDist>>
  /\ UNCHANGED <<hist, bus>>

\* Codes handed to the Executor: the controller's bytes and two more bytes
\* that are no command code.
ExecCodes == CmdBytes \cup {CMD_GET_SENSOR_DATA, ACK}

ExecNext == \E cmd \in ExecCodes : Apply(cmd)

ExecSpec == ExecInit /\ [][ExecNext]_vars

\* The Sensor Sampler alone (lines 82-83 uninterrupted), on every echo
\* duration up to the timeout and every raw reading of the converter.
SampleInit ==
  /\ observe = "sample"
  /\ Boot
  /\ \/ durIn \in 0..ECHO_TIMEOUT /\ rawIn = BATT_EMPTY
     \/ durIn = 0 /\ rawIn \in 0..ADC_MAX

\* line 82
SampleDistance ==
  /\ lpc = "readUltrasonic"
  /\ distance' = readUltrasonic(durIn)
  /\ lpc' = "readBattery"
  /\ UNCHANGED <<isr, command, cmdSrc, battery_level, rDist, motor>>
  /\ UNCHANGED <<hist, bus, exec>>

\* line 83
SampleBattery ==
  /\ lpc = "readBattery"
  /\ battery_level' = readBattery(rawIn)
  /\ lpc' = "execute"
  /\ UNCHANGED <<isr, command, cmdSrc, distance, rDist, motor>>
  /\ UNCHANGED <<hist, bus, exec>>

SampleNext == SampleDistance \/ SampleBattery

SampleSpec == SampleInit /\ [][SampleNext]_vars

TypeOK ==
  /\ lpc \in {"readUltrasonic", "storeDist1", "storeDist2", "readBattery",
              "execute", "reset", "delay"}
  /\ isr \in {"idle", "wait1", "wait2"}
  /\ command \in 0..255
  /\ distance \in -32768..32767
  /\ battery_level \in 0..255
  /\ SPDR \in 0..255
  /\ Len(got) <= 3

\* ---------------------------------------------------------------- claims
Last == rxLog[Len(rxLog)]
AfterApply == lpc \in {"reset", "delay"}

\* C1: a command byte received during poll iteration N has been passed to the
\* Command Executor once the apply step of iteration N+1 is over, unless a
\* later command byte replaced it.
C1_ExecutedByNextIteration ==
  ~(/\ Len(rxLog) > 0
    /\ ~Last.passed
    /\ \/ rxAge = 1 /\ AfterApply
       \/ rxAge > 1)

\* C2: an apply step that finds the latch as the loop's reset left it (no
\* byte latched since) leaves all six motor outputs unchanged.
C2_IdleIterationKeepsOutputs ==
  [][(Execute /\ cmdSrc = "loop") => motor' = motor]_vars

\* C3: a byte latched by the handler is read by the apply step of at most
\* one poll iteration.
C3_AppliedAtMostOnce == timesApplied <= 1

\* C3 witness: a latched byte was applied in one iteration, and the apply step
\* of the following iteration is over without a new byte.
C3_Witness ==
  /\ Len(rxLog) > 0 /\ Last.b = CMD_FORWARD
  /\ timesApplied = 1 /\ rxAge = 1 /\ AfterApply

FwdThenLeft ==
  /\ Len(rxLog) = 2
  /\ rxLog[1].b = CMD_FORWARD
  /\ rxLog[2].b = CMD_TURN_LEFT

\* C4 as stated: FORWARD then TURN_LEFT, both received within one poll
\* iteration (before the next one begins): FORWARD is never passed to the
\* Executor.
C4_SameIterationLastWriteWins ==
  (FwdThenLeft /\ rxLog[2].sameIter) => ~rxLog[1].passed

\* C4 amended: FORWARD then TURN_LEFT, both received with no apply step of the
\* loop between them: the value FORWARD is never passed to the Executor.
C4_LastWriteWins ==
  (FwdThenLeft /\ ~rxLog[2].afterRead) => ~rxLog[1].passed

\* C4 witness: both bytes arrived between two apply steps and TURN_LEFT was
\* the one executed.
C4_Witness ==
  /\ FwdThenLeft /\ ~rxLog[2].afterRead
  /\ rxLog[2].passed /\ motor = turnLeft

\* C5: the bytes shifted out after a telemetry request are at most three, in
\* the order distance-high, distance-low, battery; the first two rebuild (big
\* endian, signed 16 bit) the distance stored when the request arrived, the
\* third is the battery level stored then; when the handler returns the
\* third byte is staged.
C5_TelemetryReply ==
  /\ Len(got) <= 3
  /\ Len(got) >= 2 => FromBytes(got[1], got[2]) = gotReq.dist
  /\ Len(got) = 3 => got[3] = gotReq.bat
  /\ (Len(got) = 2 /\ isr = "idle") => SPDR = gotReq.bat
  /\ isr = "wait2" => Len(got) = 1

\* C5 witness: a complete reply carrying a distance whose two bytes differ
\* and a non-zero battery level.
C5_Witness ==
  /\ Len(got) = 3
  /\ gotReq.dist = 291 /\ gotReq.bat = 100
  /\ got = <<1, 35, 100>>

\* C6: every handler invocation returns and the loop begins another
\* iteration again and again, whatever the controller does.
C6_NeverHalts ==
  /\ (isr # "idle") ~> (isr = "idle")
  /\ []<><<Delay>>_vars

\* C7: a received byte other than 0x10 replaces the latch whatever it held,
\* every step of a telemetry reply leaves the latch alone, and the latch
\* never holds 0x10.
C7_LatchOverwrite ==
  /\ [](command # CMD_GET_SENSOR_DATA)
  /\ [][\A b \in Bytes : CommandByte(b) => command' = b]_vars
  /\ [][(TelemetryRequest \/ \E b \in Bytes : TransferDone1(b) \/ TransferDone2(b)) => command' = command]_vars

\* C7 witness: an unconsumed FORWARD was overwritten by an unknown code.
C7_Witness ==
  /\ Len(rxLog) = 2
  /\ rxLog[1].b = CMD_FORWARD /\ ~rxLog[1].passed
  /\ ~rxLog[2].afterRead
  /\ rxLog[2].b = 5 /\ command = 5

\* C8 as stated: the transfer that carries a request byte other than 0x10
\* returns 0xFF to the controller.
C8_AckOnSameExchange == xchg.req = "cmd" => xchg.resp = ACK

\* C8 amended: the handler stages 0xFF for a request byte other than 0x10
\* before it returns, and the controller receives it on the next transfer.
C8_AckOnNextExchange ==
  /\ xchg.req = "cmd" => (isr = "idle" /\ SPDR = ACK)
  /\ xchg.prev = "cmd" => xchg.resp = ACK

\* C8 witness: a command byte whose transfer returned the battery byte of
\* a reply, followed by a transfer that returned its acknowledgment.
C8_Witness ==
  /\ xchg.prev = "cmd" /\ xchg.resp = ACK
  /\ Len(got) = 3

\* C9 as stated: the latch holds the no-op value or one of the five valid
\* codes, and when not no-op the command byte received last.
C9_LatchValidOrNoop ==
  /\ command \in ValidCmds
  /\ command # 0 => (Len(rxLog) > 0 /\ command = Last.b)

\* C9 amended: the latch holds 0 or the byte received last among those other
\* than 0x10, valid code or not; it never holds 0x10.
C9_LatchNoopOrLastByte ==
  /\ command \in 0..255
  /\ command # CMD_GET_SENSOR_DATA
  /\ command # 0 => (Len(rxLog) > 0 /\ command = Last.b)

\* C9 witness: the latch holds a byte that is no valid code.
C9_Witness == command \notin ValidCmds /\ Len(rxLog) = 2

\* C10: after apply(STOP), from any state of the outputs, both duty cycles
\* are 0 and the four direction lines are low.
C10_StopZeroes ==
  lastApplied = CMD_STOP =>
    /\ motor.ena = 0 /\ motor.enb = 0
    /\ motor.in1 = LOW /\ motor.in2 = LOW /\ motor.in3 = LOW /\ motor.in4 = LOW

\* C10 witness: STOP applied right after FORWARD.
C10_Witness == lastApplied = CMD_STOP /\ prevApplied = CMD_FORWARD

\* C11: apply(c) for a code c outside the five valid ones leaves the four
\* direction lines and both duty cycles as they were, whatever they were.
C11_UnknownCodeKeepsOutputs ==
  [][\A c \in ExecCodes \ ValidCmds : Apply(c) => motor' = motor]_vars

\* C11 witness: an unknown code was applied to outputs that no profile
\* produces, and they are still there.
C11_Witness ==
  /\ lastApplied = 5 /\ prevApplied = None
  /\ motor = Profile(HIGH, HIGH, LOW, HIGH, 255, DUTY_REVERSE)

\* The direction of one side, from its pair of direction lines (the source's
\* comments on lines 188-199).
Dir(a, b) ==
  IF a = HIGH /\ b = LOW THEN "forward"
  ELSE IF a = LOW /\ b = HIGH THEN "reverse"
  ELSE "neutral"
Left(m) == Dir(m.in1, m.in2)
Right(m) == Dir(m.in3, m.in4)
\* The outputs the Executor leaves for code c from the present outputs.
After(c) == executeMotorCommand(c, motor)

\* The directions of the four moving profiles, and equal duty on both sides
\* of a turn.
ProfileDirections ==
  /\ lastApplied = CMD_TURN_LEFT =>
       Left(motor) = "reverse" /\ Right(motor) = "forward" /\ motor.ena = motor.enb
  /\ lastApplied = CMD_TURN_RIGHT =>
       Left(motor) = "forward" /\ Right(motor) = "reverse" /\ motor.ena = motor.enb
  /\ lastApplied = CMD_FORWARD => Left(motor) = "forward" /\ Right(motor) = "forward"
  /\ lastApplied = CMD_REVERSE => Left(motor) = "reverse" /\ Right(motor) = "reverse"
  /\ After(CMD_TURN_LEFT).ena = After(CMD_TURN_RIGHT).ena
  /\ After(CMD_FORWARD).ena # After(CMD_REVERSE).ena
  /\ After(CMD_FORWARD).enb # After(CMD_REVERSE).enb

\* C15 as stated: turn directions as above, and the turn duty strictly lower
\* than the duty of FORWARD and than the duty of REVERSE.
C15_TurnDutyLowest ==
  /\ ProfileDirections
  /\ After(CMD_TURN_LEFT).ena < After(CMD_FORWARD).ena
  /\ After(CMD_TURN_LEFT).ena < After(CMD_REVERSE).ena

\* C15 amended: turn directions as above, and the turn duty strictly lower
\* than the duty of FORWARD but strictly higher than the duty of REVERSE.
C15_TurnDutyBetween ==
  /\ ProfileDirections
  /\ After(CMD_TURN_LEFT).ena < After(CMD_FORWARD).ena
  /\ After(CMD_TURN_LEFT).ena > After(CMD_REVERSE).ena
  /\ After(CMD_TURN_RIGHT).enb < After(CMD_FORWARD).enb
  /\ After(CMD_TURN_RIGHT).enb > After(CMD_REVERSE).enb

\* C15 witness: TURN_LEFT applied right after REVERSE.
C15_Witness ==
  /\ lastApplied = CMD_TURN_LEFT /\ prevApplied = CMD_REVERSE
  /\ motor.ena = DUTY_TURN

\* C12: for every raw reading 0..1023 the battery level lies in 0..100 and is
\* (raw-600)*100/250 in integers, clamped to 0..100: 850 gives 100, 600 gives
\* 0, 725 gives a value in 48..50, less than 600 gives 0, more than 850
\* gives 100.
C12_BatteryMap ==
  lpc = "execute" =>
    /\ battery_level \in 0..100
    /\ rawIn <= 600 => battery_level = 0
    /\ rawIn >= 850 => battery_level = 100
    /\ (rawIn > 600 /\ rawIn < 850) => battery_level = ((rawIn - 600) * 100) \div 250
    /\ rawIn = 725 => battery_level \in 48..50

\* C12 witness: the reading 725 was converted.
C12_Witness == lpc = "execute" /\ rawIn = 725 /\ battery_level = 50

\* C13: the distance is duration*0.0343/2 truncated to an integer, 17 for
\* 1000 microseconds and 0 for the timeout; for every duration 0..25000 it
\* is non-negative and fits 16 signed bits.
C13_DistanceConversion ==
  lpc \in {"readBattery", "execute"} =>
    /\ distance \in 0..32767
    /\ distance * 20000 <= durIn * 343
    /\ durIn * 343 < (distance + 1) * 20000
    /\ durIn = 1000 => distance = 17
    /\ durIn = 0 => distance = 0

\* C13 witness: the echo of 1000 microseconds was converted.
C13_Witness == lpc = "readBattery" /\ durIn = 1000 /\ distance = 17

LoopOrder == <<"distance", "battery", "apply", "reset">>

\* C14: an iteration of loop() stores distance, then battery, then reads the
\* latch once for the Executor, then resets the latch once, then sleeps:
\* what it has done so far is always a prefix of that order, and all of it
\* when the sleep begins.
C14_LoopOrder ==
  /\ Len(trace) <= Len(LoopOrder)
  /\ trace = SubSeq(LoopOrder, 1, Len(trace))
  /\ lpc = "delay" => trace = LoopOrder
  /\ lpc = "reset" => trace = SubSeq(LoopOrder, 1, 3)
  /\ lpc = "readUltrasonic" => trace = <<>>

\* C14 witness: an iteration that applied a received FORWARD is in its sleep.
C14_Witness ==
  /\ lpc = "delay" /\ trace = LoopOrder
  /\ Len(rxLog) > 0 /\ Last.passed /\ motor = goForward

HandlerStep ==
  \/ \E b \in Bytes : CommandByte(b)
  \/ TelemetryRequest
  \/ \E b \in Bytes : TransferDone1(b)
  \/ \E b \in Bytes : TransferDone2(b)

\* C16: no step of the handler changes the telemetry snapshot or a motor
\* output, no step of a telemetry reply changes the latch; the snapshot
\* changes only in the loop's sampling steps and the outputs only in its
\* apply step.
C16_SingleWriter ==
  /\ [][HandlerStep => UNCHANGED <<distance, battery_level, motor>>]_vars
  /\ [][(TelemetryRequest \/ \E b \in Bytes : TransferDone1(b) \/ TransferDone2(b)) => command' = command]_vars
  /\ [][distance' # distance => ((\E h \in BOOLEAN : StoreDist1(h)) \/ StoreDist2)]_vars
  /\ [][battery_level' # battery_level => (\E raw \in RawLevels : ReadBattery(raw))]_vars
  /\ [][motor' # motor => Execute]_vars

\* C16 witness: the handler has run twice and is inside a reply while the
\* snapshot and the outputs hold what the loop wrote.
C16_Witness ==
  /\ isr = "wait2" /\ Len(rxLog) = 2
  /\ motor = goReverse /\ distance = 291 /\ battery_level = 100

\* C17: STOP is the command byte received last and the apply step of the
\* next full iteration is over: both duty cycles are 0 and the four
\* direction lines are low.
C17_StopNeverLost ==
  (/\ Len(rxLog) > 0
   /\ Last.b = CMD_STOP
   /\ \/ rxAge = 1 /\ AfterApply
      \/ rxAge > 1)
  => /\ motor.ena = 0 /\ motor.enb = 0
     /\ motor.in1 = LOW /\ motor.in2 = LOW /\ motor.in3 = LOW /\ motor.in4 = LOW

\* C17 witness: FORWARD was applied, STOP arrived later in the same
\* iteration, after the apply step, and the next apply step is over.
C17_Witness ==
  /\ Len(rxLog) = 2
  /\ rxLog[1].b = CMD_FORWARD /\ rxLog[1].passed
  /\ Last.b = CMD_STOP /\ Last.sameIter /\ Last.afterRead
  /\ rxAge = 1 /\ lpc = "reset"
  /\ motor = stopMotors

\* C18: a byte clocked in while the handler waits inside a reply, whatever
\* its value, does not change the latch and does not restart the reply (the
\* handler goes on to stage the low byte, then the battery byte, and
\* returns); loop() makes no step while the handler is active.
C18_ReplyBytesIgnored ==
  /\ [][\A b \in Bytes : TransferDone1(b) =>
          command' = command /\ isr' = "wait2" /\ SPDR' = LowByte(distance)]_vars
  /\ [][\A b \in Bytes : TransferDone2(b) =>
          command' = command /\ isr' = "idle" /\ SPDR' = battery_level]_vars
  /\ [][isr # "idle" => UNCHANGED <<lpc, distance, battery_level, motor, trace>>]_vars

\* C18 witness: FORWARD and a telemetry request were clocked in inside a
\* reply; the handler has returned and the latch still holds TURN_LEFT.
C18_Witness ==
  /\ isr = "idle" /\ eaten = <<CMD_FORWARD, CMD_GET_SENSOR_DATA>>
  /\ command = CMD_TURN_LEFT /\ SPDR = battery_level

\* C19: the distance of a telemetry reply is the sample of one iteration
\* (the present one or the one before), and its battery level comes from an
\* iteration that is not later than the distance's and at most one earlier.
C19_ReplyFromConsecutiveSamples ==
  /\ ~reqAge.torn
  /\ Min(reqAge.hi, reqAge.lo) <= reqAge.bat
  /\ reqAge.bat <= Min(reqAge.hi, reqAge.lo) + 1
====
